---- MODULE Spec2Model ----
(***************************************************************************)
(* Model of the storyline recommendation engine                            *)
(* (src/recommendation_engine.py) and of the way the Streamlit script      *)
(* (src/app.py) drives it.                                                 *)
(*                                                                         *)
(* A text is a sequence of one-character strings.  The engine's three      *)
(* module-level globals movies_df, tfidf_vectorizer and tfidf_matrix are   *)
(* the published index.                                                    *)
(***************************************************************************)
EXTENDS Integers, Sequences, FiniteSets, TLC

VARIABLES
    movies_df,          \* global movies_df: None or a DataFrame
    tfidf_vectorizer,   \* global tfidf_vectorizer: None or a TfidfVectorizer
    tfidf_matrix,       \* global tfidf_matrix: None or the document-term matrix
    owner,              \* which execution of the build bound each global
    call,               \* the last completed engine call: op, arg, ret, top
    built,              \* some load_and_preprocess_data has returned True
    threads,            \* per script thread: position and locals
    builds,             \* executions of the build: next number, history flags
    text,               \* the text given to both normalisations
    normDoc,            \* clean_text(text), or Unset
    normQuery           \* the query-side normalisation of text, or Unset

vars == <<movies_df, tfidf_vectorizer, tfidf_matrix, owner, call, built,
          threads, builds, text, normDoc, normQuery>>

index == <<movies_df, tfidf_vectorizer, tfidf_matrix>>

(***************************************************************************)
(* Bounds of the model.                                                    *)
(***************************************************************************)
MaxLen == 4         \* longest text given to both normalisations
MaxRows == 7        \* most records in a corpus file
NumShifts == 2      \* how many rotations of the story pool make a file
NumThreads == 2     \* script threads (Streamlit sessions)
MaxBuilds == 3      \* executions of the build in an interleaved run

RECOMMENDATION_COUNT == 5

(***************************************************************************)
(* Characters and the Python string primitives the engine uses.            *)
(***************************************************************************)
Alphabet == {"a", "b", "e", "B", "1", " ", "!"}

RECURSIVE TextsOfLen(_)
TextsOfLen(n) ==
    IF n = 0 THEN {<<>>}
    ELSE {Append(s, c) : s \in TextsOfLen(n - 1), c \in Alphabet}

Texts == UNION {TextsOfLen(n) : n \in 0..MaxLen}

\* str.lower()
LowerChar(c) == IF c = "B" THEN "b" ELSE c

Lower(s) == [i \in 1..Len(s) |-> LowerChar(s[i])]

\* \s of the regular expression, and the separator of str.split()
IsSpace(c) == c = " "

\* the characters [a-z0-9\s] that re.sub(r'[^a-z0-9\s]', '', text) keeps
Kept(c) == c \in {"a", "b", "e", "1", " "}

RECURSIVE Filter(_, _)
Filter(s, i) ==
    IF i > Len(s) THEN <<>>
    ELSE IF Kept(s[i]) THEN <<s[i]>> \o Filter(s, i + 1)
    ELSE Filter(s, i + 1)

\* re.sub(r'[^a-z0-9\s]', '', text)
ReSub(s) == Filter(s, 1)

RECURSIVE SplitFrom(_, _, _)
SplitFrom(s, i, cur) ==
    IF i > Len(s) THEN (IF cur = <<>> THEN <<>> ELSE <<cur>>)
    ELSE IF IsSpace(s[i])
         THEN (IF cur = <<>> THEN SplitFrom(s, i + 1, <<>>)
               ELSE <<cur>> \o SplitFrom(s, i + 1, <<>>))
    ELSE SplitFrom(s, i + 1, Append(cur, s[i]))

\* text.split(): the maximal runs of non-whitespace
Split(s) == SplitFrom(s, 1, <<>>)

RECURSIVE Join(_)
\* ' '.join(words)
Join(ws) ==
    IF ws = <<>> THEN <<>>
    ELSE IF Len(ws) = 1 THEN ws[1]
    ELSE ws[1] \o <<" ">> \o Join(Tail(ws))

\* stopwords.words('english') (NLTK), the entries spelled over the Alphabet
NltkStopwords == {<<"a">>, <<"b", "e">>}

RECURSIVE DropWords(_, _)
DropWords(ws, stop) ==
    IF ws = <<>> THEN <<>>
    ELSE IF ws[1] \in stop THEN DropWords(Tail(ws), stop)
    ELSE <<ws[1]>> \o DropWords(Tail(ws), stop)

(***************************************************************************)
(* The two normalisations: clean_text at build time, and the inline copy   *)
(* at the head of get_recommendations.                                     *)
(***************************************************************************)
clean_text(t) ==
    LET t1 == Lower(t)
        t2 == ReSub(t1)
    IN  Join(DropWords(Split(t2), NltkStopwords))

\* the query normalisation without its lower-casing step
QueryNoLower(user_storyline) ==
    Join(DropWords(Split(ReSub(user_storyline)), NltkStopwords))

NormalizeQuery(user_storyline) ==
    LET u1 == Lower(user_storyline)
        u2 == ReSub(u1)
    IN  Join(DropWords(Split(u2), NltkStopwords))

(***************************************************************************)
(* The corpus source: what pd.read_csv(DATA_FILE) may find.                *)
(***************************************************************************)
NaN == <<"NaN">>        \* pandas' missing value; no text equals it
Int64 == <<"int64">>    \* a cell of a column pandas parsed as numbers

\* raw Storyline fields; <<>> is an empty field
StoryPool == <<
    <<"a", "b", " ", "b", "a">>,
    <<>>,
    <<"B", "a", "!">>,
    <<"a", " ", "b", "e">>,
    <<"b", "a", " ", "b", "b">>,
    <<"b", "a">>,
    <<"b", "b", " ", "b">> >>

CsvFile(n, s) ==
    [kind |-> "csv",
     cols |-> {"Movie_Name", "Storyline"},
     rows |-> [i \in 1..n |->
                 [Movie_Name |-> i,
                  Storyline |-> StoryPool[((i - 1 + s) % Len(StoryPool)) + 1]]]]

\* DATA_FILE does not exist
MissingFile == [kind |-> "missing", cols |-> {}, rows |-> <<>>]

\* a table without a Storyline column
NoColumnFile ==
    [kind |-> "csv",
     cols |-> {"Movie_Name"},
     rows |-> [i \in 1..2 |-> [Movie_Name |-> i, Storyline |-> <<>>]]]

\* a table whose Storyline column holds numbers only
NumericFile ==
    [kind |-> "csv",
     cols |-> {"Movie_Name", "Storyline"},
     rows |-> [i \in 1..2 |-> [Movie_Name |-> i, Storyline |-> Int64]]]

Files ==
    {MissingFile, NoColumnFile, NumericFile}
        \cup {CsvFile(n, s) : n \in 0..MaxRows, s \in 0..(NumShifts - 1)}

Queries == {
    <<>>,
    <<" ", " ">>,
    <<"a", "b">>,
    <<"B", "a", " ", "b", "b", "!">>,
    <<"a", " ", "b", "e">>,
    <<"e", "e">> }

None == [tag |-> "None"]

(***************************************************************************)
(* pandas: read_csv, dropna(subset=['Storyline'], inplace=True), apply.    *)
(***************************************************************************)
\* read_csv turns an empty field into NaN and labels the rows 1, 2, ...
ReadCsv(f) ==
    [tag |-> "DataFrame",
     cols |-> f.cols,
     rows |-> [i \in 1..Len(f.rows) |->
                 [label |-> i,
                  Movie_Name |-> f.rows[i].Movie_Name,
                  Storyline |-> IF f.rows[i].Storyline = <<>> THEN NaN
                                ELSE f.rows[i].Storyline,
                  Cleaned |-> NaN]]]

HasStoryline(r) == r.Storyline # NaN

\* a frame from which no row is dropped
KeepAll(df) == df

\* dropna keeps the rows whose Storyline is present; labels are not renumbered
DropNa(df) == [df EXCEPT !.rows = SelectSeq(df.rows, HasStoryline)]

IsStr(x) == x # NaN /\ x # Int64

\* movies_df['Storyline'].apply(clean_text): the new column, by row label
CleanedColumn(df) ==
    [i \in 1..Len(df.rows) |->
        [label |-> df.rows[i].label, value |-> clean_text(df.rows[i].Storyline)]]

ColumnValue(col, label) ==
    IF \E k \in 1..Len(col) : col[k].label = label
    THEN col[CHOOSE k \in 1..Len(col) : col[k].label = label].value
    ELSE NaN

\* movies_df['Cleaned Storyline'] = column: pandas aligns on the row labels
SetCleaned(df, col) ==
    [df EXCEPT !.cols = @ \cup {"Cleaned_Storyline"},
               !.rows = [i \in 1..Len(df.rows) |->
                           [df.rows[i] EXCEPT
                               !.Cleaned = ColumnValue(col, df.rows[i].label)]]]

\* movies_df['Cleaned Storyline'] as a list of documents
CleanedDocs(df) == [i \in 1..Len(df.rows) |-> df.rows[i].Cleaned]

(***************************************************************************)
(* scikit-learn: TfidfVectorizer(stop_words='english') and                 *)
(* cosine_similarity.  Weights are kept in quarter units so that the       *)
(* cross-multiplied comparison of scores stays inside TLC's integers.      *)
(***************************************************************************)
WordChar(c) == c \in {"a", "b", "e", "B", "1"}

RECURSIVE TokensFrom(_, _, _)
TokensFrom(s, i, cur) ==
    IF i > Len(s) THEN (IF Len(cur) >= 2 THEN <<cur>> ELSE <<>>)
    ELSE IF WordChar(s[i]) THEN TokensFrom(s, i + 1, Append(cur, s[i]))
    ELSE (IF Len(cur) >= 2 THEN <<cur>> ELSE <<>>) \o TokensFrom(s, i + 1, <<>>)

\* sklearn's ENGLISH_STOP_WORDS, the entries spelled over the Alphabet
SklearnStopWords == {<<"a">>, <<"b", "e">>}

\* the analyzer: lowercase, token_pattern (?u)\b\w\w+\b, stop words removed
Analyze(doc) == DropWords(TokensFrom(Lower(doc), 1, <<>>), SklearnStopWords)

Range(s) == {s[i] : i \in 1..Len(s)}

CharCode(c) ==
    CASE c = " " -> 1 [] c = "!" -> 2 [] c = "1" -> 3 [] c = "B" -> 4
      [] c = "a" -> 5 [] c = "b" -> 6 [] c = "e" -> 7

RECURSIVE LexLess(_, _)
LexLess(s, t) ==
    IF t = <<>> THEN FALSE
    ELSE IF s = <<>> THEN TRUE
    ELSE IF CharCode(s[1]) # CharCode(t[1]) THEN CharCode(s[1]) < CharCode(t[1])
    ELSE LexLess(Tail(s), Tail(t))

RECURSIVE SortedTerms(_)
\* the vocabulary in feature order (sorted terms)
SortedTerms(S) ==
    IF S = {} THEN <<>>
    ELSE LET m == CHOOSE x \in S : \A y \in S \ {x} : LexLess(x, y)
         IN  <<m>> \o SortedTerms(S \ {m})

Count(t, toks) == Cardinality({k \in 1..Len(toks) : toks[k] = t})

\* round(4 * (ln((1 + n) / (1 + df)) + 1)), row n, column df (smooth_idf)
IdfQuarter == <<
    <<4>>,
    <<6, 4>>,
    <<7, 5, 4>>,
    <<8, 6, 5, 4>>,
    <<8, 7, 6, 5, 4>>,
    <<9, 7, 6, 5, 5, 4>>,
    <<10, 8, 7, 6, 5, 5, 4>>,
    <<10, 8, 7, 6, 6, 5, 4, 4>>,
    <<10, 9, 8, 7, 6, 5, 5, 4, 4>> >>

\* a fresh TfidfVectorizer(stop_words='english'), not fitted
NewVectorizer ==
    [tag |-> "TfidfVectorizer", fitted |-> FALSE, vocabulary |-> <<>>, idf |-> <<>>]

TermWeights(vocabulary, idf, toks) ==
    [j \in 1..Len(vocabulary) |-> Count(vocabulary[j], toks) * idf[j]]

\* fit_transform(docs): raises on a NaN document and on an empty vocabulary
FitTransform(docs) ==
    IF \E i \in 1..Len(docs) : ~IsStr(docs[i])
    THEN [raised |-> "ValueError", vec |-> NewVectorizer, matrix |-> None]
    ELSE
    LET toks == [i \in 1..Len(docs) |-> Analyze(docs[i])]
        terms == UNION {Range(toks[i]) : i \in 1..Len(docs)}
    IN  IF terms = {}
        THEN [raised |-> "ValueError", vec |-> NewVectorizer, matrix |-> None]
        ELSE
        LET vocabulary == SortedTerms(terms)
            n == Len(docs)
            docFreq(t) == Cardinality({i \in 1..n : t \in Range(toks[i])})
            idf == [j \in 1..Len(vocabulary) |-> IdfQuarter[n][docFreq(vocabulary[j])]]
        IN  [raised |-> "",
             vec |-> [tag |-> "TfidfVectorizer", fitted |-> TRUE,
                      vocabulary |-> vocabulary, idf |-> idf],
             matrix |-> [tag |-> "matrix", width |-> Len(vocabulary),
                         rows |-> [i \in 1..n |-> TermWeights(vocabulary, idf, toks[i])]]]

\* transform([doc]) with a fitted vectorizer: out-of-vocabulary terms drop out
Transform(vec, doc) == TermWeights(vec.vocabulary, vec.idf, Analyze(doc))

RECURSIVE Dot(_, _)
Dot(u, v) == IF u = <<>> THEN 0 ELSE u[1] * v[1] + Dot(Tail(u), Tail(v))

\* The similarity of the query vector u to a row d, as the fraction
\* dot(u, d)^2 / |d|^2: the cosine squared times |u|^2, which orders the rows
\* as the cosine does (all weights are >= 0); 0 when a norm is 0.
Score(u, d) ==
    IF Dot(d, d) = 0 \/ Dot(u, u) = 0 THEN [num |-> 0, den |-> 1]
    ELSE [num |-> Dot(u, d) * Dot(u, d), den |-> Dot(d, d)]

ScoreLess(a, b) == a.num * b.den < b.num * a.den
ScoreEq(a, b) == a.num * b.den = b.num * a.den

\* list(enumerate(cosine_sim[0])): pairs (row position, score)
SimilarityScores(u, matrix) ==
    [i \in 1..Len(matrix.rows) |-> [i |-> i, score |-> Score(u, matrix.rows[i])]]

(***************************************************************************)
(* sorted(similarity_scores, key=lambda x: x[1], reverse=True): CPython    *)
(* reverses the list, sorts it stably in ascending key order and reverses  *)
(* it again.                                                               *)
(***************************************************************************)
Reverse(s) == [i \in 1..Len(s) |-> s[Len(s) + 1 - i]]

RECURSIVE InsertAsc(_, _)
\* insert x behind every element whose key is not greater (stable)
InsertAsc(s, x) ==
    IF s = <<>> THEN <<x>>
    ELSE IF ScoreLess(x.score, s[1].score) THEN <<x>> \o s
    ELSE <<s[1]>> \o InsertAsc(Tail(s), x)

RECURSIVE SortAsc(_)
SortAsc(s) ==
    IF s = <<>> THEN <<>>
    ELSE InsertAsc(SortAsc(SubSeq(s, 1, Len(s) - 1)), s[Len(s)])

\* an ascending stable sort read backwards: equal keys come out reversed
AscendingThenReversed(s) == Reverse(SortAsc(s))

SortedReverse(s) == Reverse(SortAsc(Reverse(s)))

Min(a, b) == IF a < b THEN a ELSE b

\* [i[0] for i in similarity_scores[0:RECOMMENDATION_COUNT]]
TopIndices(sorted) ==
    [k \in 1..Min(RECOMMENDATION_COUNT, Len(sorted)) |-> sorted[k].i]

\* movies_df.iloc[top][['Movie Name', 'Storyline']].to_dict('records')
Records(df, top) ==
    [k \in 1..Len(top) |->
        [Movie_Name |-> df.rows[top[k]].Movie_Name,
         Storyline |-> df.rows[top[k]].Storyline]]

(***************************************************************************)
(* load_and_preprocess_data, run to completion from the globals            *)
(* (df, vec, mat) on the file f: the globals it leaves and what it returns.*)
(* Every assignment to a global takes effect when its statement runs, so   *)
(* an exception keeps the assignments made before it.                      *)
(***************************************************************************)
LoadOutcome(df, vec, mat, f) ==
    IF f.kind = "missing"
    THEN \* line 34 raises FileNotFoundError
         [df |-> df, vec |-> vec, mat |-> mat, ret |-> FALSE]
    ELSE
    LET d1 == ReadCsv(f) IN                                   \* line 34
    IF "Storyline" \notin d1.cols
    THEN \* line 37 raises KeyError
         [df |-> d1, vec |-> vec, mat |-> mat, ret |-> FALSE]
    ELSE
    LET d2 == DropNa(d1) IN                                   \* line 37
    IF \E i \in 1..Len(d2.rows) : ~IsStr(d2.rows[i].Storyline)
    THEN \* line 54: clean_text raises AttributeError on a non-string
         [df |-> d2, vec |-> vec, mat |-> mat, ret |-> FALSE]
    ELSE
    LET col == CleanedColumn(d2)
        d3 == SetCleaned(d2, col)                             \* line 54
        fit == FitTransform(CleanedDocs(d3))
    IN  IF fit.raised # ""
        THEN \* line 59 has bound the new vectorizer; line 62 raises
             [df |-> d3, vec |-> NewVectorizer, mat |-> mat, ret |-> FALSE]
        ELSE [df |-> d3, vec |-> fit.vec, mat |-> fit.matrix, ret |-> TRUE]

(***************************************************************************)
(* get_recommendations, run to completion.                                 *)
(***************************************************************************)
\* a guard that does not look at tfidf_matrix
GuardWithoutMatrix(df, vec, mat) == df = None \/ vec = None

\* line 81
EngineNotInitialized(df, vec, mat) == df = None \/ vec = None \/ mat = None

Raise(name) == [raised |-> name, value |-> <<>>, top |-> <<>>]

\* lines 103-107, given the query vector u
Rank(mat, u) == TopIndices(SortedReverse(SimilarityScores(u, mat)))

\* line 110: iloc is positional and raises beyond the last row; selecting a
\* column the frame does not have raises
Select(df, top_indices) ==
    IF \E k \in 1..Len(top_indices) : top_indices[k] > Len(df.rows)
    THEN Raise("IndexError")
    ELSE IF ~({"Movie_Name", "Storyline"} \subseteq df.cols)
    THEN Raise("KeyError")
    ELSE [raised |-> "", value |-> Records(df, top_indices), top |-> top_indices]

Recommend(df, vec, mat, user_storyline) ==
    IF EngineNotInitialized(df, vec, mat) THEN [raised |-> "", value |-> <<>>, top |-> <<>>]
    ELSE IF ~vec.fitted THEN Raise("NotFittedError")          \* line 93
    ELSE LET u == Transform(vec, NormalizeQuery(user_storyline)) IN
         IF Len(u) # mat.width THEN Raise("ValueError")       \* line 97
         ELSE Select(df, Rank(mat, u))

load_and_preprocess_data(f) ==
    LET r == LoadOutcome(movies_df, tfidf_vectorizer, tfidf_matrix, f) IN
    /\ movies_df' = r.df
    /\ tfidf_vectorizer' = r.vec
    /\ tfidf_matrix' = r.mat
    /\ call' = [op |-> "load", arg |-> f, raised |-> "", value |-> r.ret, top |-> <<>>]
    /\ built' = (built \/ r.ret)
    /\ UNCHANGED <<owner, threads, builds, text, normDoc, normQuery>>

\* a query that fits the vectorizer on the query instead of transforming it
get_recommendations_refit(user_storyline) ==
    LET r == Recommend(movies_df, tfidf_vectorizer, tfidf_matrix, user_storyline)
        fit == FitTransform(<<NormalizeQuery(user_storyline)>>)
    IN
    /\ call' = [op |-> "query", arg |-> user_storyline,
                raised |-> r.raised, value |-> r.value, top |-> r.top]
    /\ tfidf_vectorizer' = IF EngineNotInitialized(movies_df, tfidf_vectorizer, tfidf_matrix)
                           THEN tfidf_vectorizer ELSE fit.vec
    /\ UNCHANGED <<movies_df, tfidf_matrix, owner, built, threads, builds,
                   text, normDoc, normQuery>>

get_recommendations(user_storyline) ==
    LET r == Recommend(movies_df, tfidf_vectorizer, tfidf_matrix, user_storyline) IN
    /\ call' = [op |-> "query", arg |-> user_storyline,
                raised |-> r.raised, value |-> r.value, top |-> r.top]
    /\ UNCHANGED <<movies_df, tfidf_vectorizer, tfidf_matrix, owner, built,
                   threads, builds, text, normDoc, normQuery>>

\* app.py lines 83-106: the button handler calls the engine only when the
\* text area is not the empty string; the exception handler shows no results
GetRecommendationsButton(user_storyline) ==
    LET r == Recommend(movies_df, tfidf_vectorizer, tfidf_matrix, user_storyline) IN
    /\ call' = IF user_storyline = <<>>
               THEN [op |-> "button", arg |-> user_storyline,
                     raised |-> "", value |-> <<>>, top |-> <<>>]
               ELSE [op |-> "button", arg |-> user_storyline,
                     raised |-> "", value |-> r.value, top |-> r.top]
    /\ UNCHANGED <<movies_df, tfidf_vectorizer, tfidf_matrix, owner, built,
                   threads, builds, text, normDoc, normQuery>>

Unset == <<"unset">>
Idle == [pc |-> "idle"]

Init ==
    /\ movies_df = None
    /\ tfidf_vectorizer = None
    /\ tfidf_matrix = None
    /\ owner = [df |-> 0, vec |-> 0, fit |-> 0, mat |-> 0]
    /\ call = [op |-> "none"]
    /\ built = FALSE
    /\ threads = [t \in 1..NumThreads |-> Idle]
    /\ builds = [next |-> 1, overlapped |-> FALSE, failed |-> FALSE]
    /\ text = <<>>
    /\ normDoc = Unset
    /\ normQuery = Unset

Next ==
    \/ \E f \in Files : load_and_preprocess_data(f)
    \/ \E q \in Queries : get_recommendations(q)
    \/ \E q \in Queries : GetRecommendationsButton(q)

\* the engine's calls made one after another, each run to completion
Spec == Init /\ [][Next]_vars

(***************************************************************************)
(* Properties of the calls made one after another.                         *)
(***************************************************************************)
\* the matrix has one row per document of the frame, row i built from the
\* i-th document
RowsAligned(df, mat) ==
    /\ "Cleaned_Storyline" \in df.cols
    /\ FitTransform(CleanedDocs(df)).raised = ""
    /\ mat = FitTransform(CleanedDocs(df)).matrix

\* the three globals are the whole result of one build of the frame
Published(df, vec, mat) ==
    /\ ~EngineNotInitialized(df, vec, mat)
    /\ RowsAligned(df, mat)
    /\ vec = FitTransform(CleanedDocs(df)).vec

IsQuery == call.op \in {"query", "button"}

Blank(t) == \A i \in 1..Len(t) : IsSpace(t[i])

\* C1: a call to load_and_preprocess_data that returns False leaves
\* movies_df, tfidf_vectorizer and tfidf_matrix as they were before the call.
C1_FailedBuildKeepsIndex ==
    [][(call'.op = "load" /\ call'.value = FALSE) => index' = index]_vars

\* C3: while no load_and_preprocess_data has returned True,
\* get_recommendations returns an empty result and does not raise.
C3_EmptyUntilBuilt ==
    (call.op = "query" /\ ~built) => (call.raised = "" /\ call.value = <<>>)

\* a query answered after a failed build that left a frame and an unfitted
\* vectorizer behind
C3_Witness ==
    /\ call.op = "query"
    /\ ~built
    /\ movies_df # None
    /\ tfidf_vectorizer # None
    /\ call.value = <<>>

\* the score of row i for the query of the last call
CallScore(i) ==
    Score(Transform(tfidf_vectorizer, NormalizeQuery(call.arg)), tfidf_matrix.rows[i])

\* C4: against an index of n documents a non-empty query returns exactly
\* min(RECOMMENDATION_COUNT, n) entries whatever the scores, in descending
\* score order, documents of equal score in corpus order.
C4_TopNStableDescending ==
    (call.op = "query" /\ ~Blank(call.arg)
        /\ Published(movies_df, tfidf_vectorizer, tfidf_matrix))
    => /\ call.raised = ""
       /\ Len(call.value) = Min(RECOMMENDATION_COUNT, Len(movies_df.rows))
       /\ Len(call.top) = Len(call.value)
       /\ call.value = Records(movies_df, call.top)
       /\ \A a, b \in 1..Len(call.top) :
            a < b =>
              /\ ~ScoreLess(CallScore(call.top[a]), CallScore(call.top[b]))
              /\ ScoreEq(CallScore(call.top[a]), CallScore(call.top[b]))
                    => call.top[a] < call.top[b]

\* six documents, five returned: a strict descent, then documents tied at
\* score zero in corpus order
\* a query for which two documents tie at a score above zero
C4_NonZeroTie ==
    /\ call.op = "query"
    /\ Published(movies_df, tfidf_vectorizer, tfidf_matrix)
    /\ \E a \in 1..(Len(call.top) - 1) :
         /\ ScoreEq(CallScore(call.top[a]), CallScore(call.top[a + 1]))
         /\ CallScore(call.top[a]).num > 0

C4_Witness ==
    /\ call.op = "query"
    /\ ~Blank(call.arg)
    /\ Published(movies_df, tfidf_vectorizer, tfidf_matrix)
    /\ Len(movies_df.rows) = 6
    /\ Len(call.value) = 5
    /\ ScoreLess(CallScore(call.top[5]), CallScore(call.top[1]))
    /\ CallScore(call.top[4]).num = 0
    /\ CallScore(call.top[5]).num = 0
    /\ call.top[4] < call.top[5]

\* C5: an empty or whitespace-only query against an initialized index
\* returns an empty sequence and does not raise.
C5_BlankQueryReturnsNothing ==
    (IsQuery /\ Blank(call.arg)
        /\ Published(movies_df, tfidf_vectorizer, tfidf_matrix))
    => (call.raised = "" /\ call.value = <<>>)

\* C6: every call to get_recommendations leaves movies_df, tfidf_vectorizer
\* and tfidf_matrix as they were.
C6_QueryKeepsIndex == [][call'.op \in {"query", "button"} => index' = index]_vars

\* a query that was answered with records from a built index
C6_Witness ==
    /\ call.op = "query"
    /\ built
    /\ call.raised = ""
    /\ Len(call.value) > 0

\* C7: whenever get_recommendations passes its guard, tfidf_matrix has as
\* many rows as movies_df has documents and row i was built from document i.
C7_RowsAlignedWhenGuardPasses ==
    ~EngineNotInitialized(movies_df, tfidf_vectorizer, tfidf_matrix)
        => RowsAligned(movies_df, tfidf_matrix)

\* the records of file f whose Storyline field is present, as indexed
WithStoryline(f) ==
    LET keep(r) == r.Storyline # <<>> IN SelectSeq(f.rows, keep)

ConcFiles == {CsvFile(2, 0), CsvFile(3, 1), CsvFile(1, 1), MissingFile}

ConcQueries == {<<"a", "b">>}

Threads == 1..NumThreads

LoadPcs == {"L37", "L54", "L54s", "L59", "L62", "L62f", "L62s"}

InLoad(t) == threads[t].pc \in LoadPcs

\* more than one thread inside load_and_preprocess_data after this step
Overlap(ths) == Cardinality({t \in Threads : ths[t].pc \in LoadPcs}) > 1

Proceed(t, rec) ==
    /\ threads' = [threads EXCEPT ![t] = rec]
    /\ builds' = [builds EXCEPT
                    !.overlapped = @ \/ Overlap([threads EXCEPT ![t] = rec])]

\* the except clauses: print and return False
ReturnFalse(t) ==
    /\ threads' = [threads EXCEPT ![t] = Idle]
    /\ builds' = [builds EXCEPT !.failed = TRUE]
    /\ call' = [op |-> "load", arg |-> threads[t].f, raised |-> "",
                value |-> FALSE, top |-> <<>>]

\* the call and line 34: movies_df = pd.read_csv(DATA_FILE)
Load34(t, f) ==
    /\ threads[t].pc = "idle"
    /\ builds.next <= MaxBuilds
    /\ IF f.kind = "missing"
       THEN /\ threads' = threads
            /\ builds' = [builds EXCEPT !.next = @ + 1, !.failed = TRUE]
            /\ call' = [op |-> "load", arg |-> f, raised |-> "",
                        value |-> FALSE, top |-> <<>>]
            /\ UNCHANGED <<movies_df, owner>>
       ELSE /\ movies_df' = ReadCsv(f)
            /\ owner' = [owner EXCEPT !.df = builds.next]
            /\ threads' = [threads EXCEPT ![t] = [pc |-> "L37", f |-> f, id |-> builds.next]]
            /\ builds' = [builds EXCEPT
                            !.next = @ + 1,
                            !.overlapped = @ \/ \E o \in Threads \ {t} : InLoad(o)]
            /\ call' = call
    /\ UNCHANGED <<tfidf_vectorizer, tfidf_matrix, built, text, normDoc, normQuery>>

\* line 37: movies_df.dropna(subset=['Storyline'], inplace=True)
Load37(t) ==
    /\ threads[t].pc = "L37"
    /\ IF "Storyline" \notin movies_df.cols
       THEN ReturnFalse(t) /\ movies_df' = movies_df
       ELSE /\ movies_df' = DropNa(movies_df)
            /\ Proceed(t, [threads[t] EXCEPT !.pc = "L54"])
            /\ call' = call
    /\ UNCHANGED <<tfidf_vectorizer, tfidf_matrix, owner, built, text, normDoc, normQuery>>

\* line 54, right-hand side: movies_df['Storyline'].apply(clean_text)
Load54(t) ==
    /\ threads[t].pc = "L54"
    /\ IF \/ "Storyline" \notin movies_df.cols
          \/ \E i \in 1..Len(movies_df.rows) : ~IsStr(movies_df.rows[i].Storyline)
       THEN ReturnFalse(t)
       ELSE /\ Proceed(t, [pc |-> "L54s", f |-> threads[t].f, id |-> threads[t].id,
                           col |-> CleanedColumn(movies_df)])
            /\ call' = call
    /\ UNCHANGED <<movies_df, tfidf_vectorizer, tfidf_matrix, owner, built,
                   text, normDoc, normQuery>>

\* line 54, the store: movies_df['Cleaned Storyline'] = ...
Load54s(t) ==
    /\ threads[t].pc = "L54s"
    /\ movies_df' = SetCleaned(movies_df, threads[t].col)
    /\ Proceed(t, [pc |-> "L59", f |-> threads[t].f, id |-> threads[t].id])
    /\ UNCHANGED <<tfidf_vectorizer, tfidf_matrix, owner, call, built,
                   text, normDoc, normQuery>>

\* line 59: tfidf_vectorizer = TfidfVectorizer(stop_words='english')
Load59(t) ==
    /\ threads[t].pc = "L59"
    /\ tfidf_vectorizer' = NewVectorizer
    /\ owner' = [owner EXCEPT !.vec = threads[t].id, !.fit = 0]
    /\ Proceed(t, [threads[t] EXCEPT !.pc = "L62"])
    /\ UNCHANGED <<movies_df, tfidf_matrix, call, built, text, normDoc, normQuery>>

\* line 62, the operands: the vectorizer the global refers to now, and
\* movies_df['Cleaned Storyline']
Load62(t) ==
    /\ threads[t].pc = "L62"
    /\ IF "Cleaned_Storyline" \notin movies_df.cols
       THEN ReturnFalse(t)
       ELSE /\ Proceed(t, [pc |-> "L62f", f |-> threads[t].f, id |-> threads[t].id,
                           ref |-> owner.vec, docs |-> CleanedDocs(movies_df)])
            /\ call' = call
    /\ UNCHANGED <<movies_df, tfidf_vectorizer, tfidf_matrix, owner, built,
                   text, normDoc, normQuery>>

\* line 62, the call: fit_transform fits the object it was called on, which
\* the global may or may not still refer to
Load62f(t) ==
    LET fit == FitTransform(threads[t].docs) IN
    /\ threads[t].pc = "L62f"
    /\ IF fit.raised # ""
       THEN ReturnFalse(t) /\ UNCHANGED <<tfidf_vectorizer, owner>>
       ELSE /\ IF owner.vec = threads[t].ref
               THEN /\ tfidf_vectorizer' = fit.vec
                    /\ owner' = [owner EXCEPT !.fit = threads[t].id]
               ELSE UNCHANGED <<tfidf_vectorizer, owner>>
            /\ Proceed(t, [pc |-> "L62s", f |-> threads[t].f, id |-> threads[t].id,
                           matrix |-> fit.matrix])
            /\ call' = call
    /\ UNCHANGED <<movies_df, tfidf_matrix, built, text, normDoc, normQuery>>

\* line 62, the store: tfidf_matrix = ...; then line 74: return True
Load62s(t) ==
    /\ threads[t].pc = "L62s"
    /\ tfidf_matrix' = threads[t].matrix
    /\ owner' = [owner EXCEPT !.mat = threads[t].id]
    /\ threads' = [threads EXCEPT ![t] = Idle]
    /\ call' = [op |-> "load", arg |-> threads[t].f, raised |-> "",
                value |-> TRUE, top |-> <<>>]
    /\ built' = TRUE
    /\ UNCHANGED <<movies_df, tfidf_vectorizer, builds, text, normDoc, normQuery>>

QueryDone(t, r) ==
    /\ threads' = [threads EXCEPT ![t] = Idle]
    /\ call' = r

\* the call and line 81: the guard
Query81(t, q) ==
    /\ threads[t].pc = "idle"
    /\ IF EngineNotInitialized(movies_df, tfidf_vectorizer, tfidf_matrix)
       THEN QueryDone(t, [op |-> "query", arg |-> q, raised |-> "",
                          value |-> <<>>, top |-> <<>>])
       ELSE /\ threads' = [threads EXCEPT ![t] = [pc |-> "Q93", q |-> q]]
            /\ call' = call
    /\ UNCHANGED <<movies_df, tfidf_vectorizer, tfidf_matrix, owner, built,
                   builds, text, normDoc, normQuery>>

\* lines 87-93: normalise, then tfidf_vectorizer.transform
Query93(t) ==
    /\ threads[t].pc = "Q93"
    /\ IF ~tfidf_vectorizer.fitted
       THEN QueryDone(t, [op |-> "query", arg |-> threads[t].q,
                          raised |-> "NotFittedError", value |-> <<>>, top |-> <<>>])
       ELSE /\ threads' = [threads EXCEPT ![t] =
                             [pc |-> "Q97", q |-> threads[t].q,
                              u |-> Transform(tfidf_vectorizer, NormalizeQuery(threads[t].q)),
                              rvec |-> owner.fit]]
            /\ call' = call
    /\ UNCHANGED <<movies_df, tfidf_vectorizer, tfidf_matrix, owner, built,
                   builds, text, normDoc, normQuery>>

\* lines 97-107: cosine_similarity against tfidf_matrix, sort, slice
Query97(t) ==
    /\ threads[t].pc = "Q97"
    /\ IF Len(threads[t].u) # tfidf_matrix.width
       THEN QueryDone(t, [op |-> "query", arg |-> threads[t].q,
                          raised |-> "ValueError", value |-> <<>>, top |-> <<>>])
       ELSE /\ threads' = [threads EXCEPT ![t] =
                             [pc |-> "Q110", q |-> threads[t].q,
                              top_indices |-> Rank(tfidf_matrix, threads[t].u),
                              rvec |-> threads[t].rvec, rmat |-> owner.mat]]
            /\ call' = call
    /\ UNCHANGED <<movies_df, tfidf_vectorizer, tfidf_matrix, owner, built,
                   builds, text, normDoc, normQuery>>

\* line 110: movies_df.iloc[top_indices][...]; reads names, per global, the
\* execution of the build whose value this query used
Query110(t) ==
    LET r == Select(movies_df, threads[t].top_indices) IN
    /\ threads[t].pc = "Q110"
    /\ QueryDone(t, [op |-> "query", arg |-> threads[t].q, raised |-> r.raised,
                     value |-> r.value, top |-> r.top,
                     reads |-> [vec |-> threads[t].rvec, mat |-> threads[t].rmat,
                                df |-> owner.df],
                     overlapped |-> builds.overlapped])
    /\ UNCHANGED <<movies_df, tfidf_vectorizer, tfidf_matrix, owner, built,
                   builds, text, normDoc, normQuery>>

ConcNext ==
    \E t \in Threads :
        \/ \E f \in ConcFiles : Load34(t, f)
        \/ Load37(t)
        \/ Load54(t)
        \/ Load54s(t)
        \/ Load59(t)
        \/ Load62(t)
        \/ Load62f(t)
        \/ Load62s(t)
        \/ \E q \in ConcQueries : Query81(t, q)
        \/ Query93(t)
        \/ Query97(t)
        \/ Query110(t)

\* the engine's calls made by interleaving script threads
SpecConc == Init /\ [][ConcNext]_vars

\* C2: with one load_and_preprocess_data running beside get_recommendations
\* calls, every query reads movies_df, tfidf_vectorizer and tfidf_matrix of
\* one and the same build.
C2_QueryReadsOneIndex ==
    (call.op = "query" /\ "reads" \in DOMAIN call /\ ~call.overlapped)
        => (call.reads.vec = call.reads.mat /\ call.reads.mat = call.reads.df)

\* at most one thread is inside load_and_preprocess_data
AtMostOneLoadRunning == ~Overlap(threads)

\* C10: at most one execution of load_and_preprocess_data is in progress at
\* a time, so that once the builds started by the script threads have all
\* completed (none of them failing) the published index is wholly the
\* result of a single build.
C10_BuildsDoNotMix ==
    (/\ \A t \in Threads : threads[t].pc = "idle"
     /\ ~builds.failed
     /\ ~EngineNotInitialized(movies_df, tfidf_vectorizer, tfidf_matrix))
    => Published(movies_df, tfidf_vectorizer, tfidf_matrix)

(***************************************************************************)
(* Both normalisations applied to every text of at most MaxLen characters. *)
(***************************************************************************)
NormInit ==
    /\ movies_df = None
    /\ tfidf_vectorizer = None
    /\ tfidf_matrix = None
    /\ owner = [df |-> 0, vec |-> 0, fit |-> 0, mat |-> 0]
    /\ call = [op |-> "none"]
    /\ built = FALSE
    /\ threads = [t \in 1..NumThreads |-> Idle]
    /\ builds = [next |-> 1, overlapped |-> FALSE, failed |-> FALSE]
    /\ text \in Texts
    /\ normDoc = Unset
    /\ normQuery = Unset

Normalize ==
    /\ normDoc = Unset
    /\ normDoc' = clean_text(text)
    /\ normQuery' = NormalizeQuery(text)
    /\ UNCHANGED <<movies_df, tfidf_vectorizer, tfidf_matrix, owner, call,
                   built, threads, builds, text>>

NormNext == Normalize

NormSpec == NormInit /\ [][NormNext]_vars

\* C8: for every input text the normalisation applied to a query in
\* get_recommendations yields the same output as clean_text applied to a
\* storyline at build time.
C8_SameNormalization == normDoc # Unset => normQuery = normDoc

\* a text with an upper-case letter, punctuation and a stopword was normalised
\* to a non-empty text that differs from the input
C8_Witness ==
    /\ normDoc # Unset
    /\ text = <<"B", "!", " ", "a">>
    /\ normDoc = <<"b">>
    /\ normQuery = <<"b">>

====
